---------------------------- MODULE Spec2Model ----------------------------
(***************************************************************************)
(* The viewport interaction engine of the 2D DXF viewer/editor             *)
(* (ThreeDxfViewer with selection, move and delete): the React state of    *)
(* the component, its effects and its pointer / wheel / keyboard handlers. *)
(*                                                                         *)
(* Numbers.  JavaScript numbers are modelled as exact extended rationals   *)
(* [s, n, d] = s * n / d with s \in {1,-1}: d > 0 is a finite value (in    *)
(* lowest terms, both zeros kept apart by s), d = 0 /\ n = 1 is +-Infinity *)
(* and d = 0 /\ n = 0 is NaN.  The operators follow IEEE-754 for the       *)
(* special values; rounding of finite values is not modelled.              *)
(*                                                                         *)
(* React.  A handler reads the state of the last committed render and      *)
(* queues updates; the updates are committed together and the effects      *)
(* whose dependencies changed identity then run, possibly queueing more    *)
(* updates.  One action of the model is one event: the handler and the     *)
(* cascade of renders and effects that follows it, up to quiescence.       *)
(***************************************************************************)
EXTENDS Integers, Sequences, FiniteSets, TLC

VARIABLES
    dxf,                \* prop: the entity list supplied by the collaborator
    scale,              \* useState<number>(1)
    pan,                \* useState({x: 0, y: 0})
    isDragging,         \* panning gesture
    dragStart,          \* last pointer position of a pan / move gesture
    entities,           \* the Entity Store
    selectedEntityIds,  \* the Selection Set (an array)
    isMovingSelection,  \* dragging-the-selection gesture
    selectionStart,     \* anchor of the selection box, or Null
    selectionBox,       \* screen rectangle of the selection box, or Null
    mode,               \* "select" | "move"
    isShiftPressed,     \* multi-select modifier
    translated,         \* history: the gesture in progress has translated an entity
    nTranslate,         \* translating pointer-moves since the list was supplied
    nView,              \* pan and wheel steps since the view was last fitted
    canvas,             \* what the 2d context of the canvas element shows
    pending,            \* the effects of the last commit that have yet to run
    animationFrameRef,  \* handle of the last frame callback requested, 0 for null
    frames,             \* the frame callbacks the browser holds, with their handles
    mounted,            \* the component has not been unmounted
    failed              \* an uncaught TypeError has taken the component down

vars == <<dxf, scale, pan, isDragging, dragStart, entities, selectedEntityIds,
          isMovingSelection, selectionStart, selectionBox, mode, isShiftPressed,
          translated, nTranslate, nView, canvas, pending, animationFrameRef, frames,
          mounted, failed>>

-----------------------------------------------------------------------------
(* Bounds of the model *)

\* steps explored that change coordinates or the view: translating
\* pointer-moves since the list was supplied, plus pan and wheel steps since
\* the view was last fitted
MaxSteps == 1
\* largest denominator of a coordinate, scale or pan explored
MaxDenominator == 2
\* ids generateId can return are 1..MaxGenId
MaxGenId == 1
\* longest entity list supplied in the exploration of ingestion
MaxListLen == 3

(* Program constants *)

\* viewport width passed by the host page
width == 800
\* viewport height passed by the host page
height == 600
\* pick radius in pixels
PickRadiusPx == 10
\* approximate glyph width in pixels
GlyphWidthPx == 8
\* approximate text height in pixels
TextHeightPx == 14
\* horizontal / lower margin of the text hit box in pixels
TextMarginPx == 2
GridSize == 10

-----------------------------------------------------------------------------
(* JavaScript numbers *)

RECURSIVE GCD(_, _)
GCD(a, b) == IF b = 0 THEN a ELSE GCD(b, a % b)

NaN == [s |-> 1, n |-> 0, d |-> 0]
Infinity == [s |-> 1, n |-> 1, d |-> 0]
NegInfinity == [s |-> -1, n |-> 1, d |-> 0]

IsNaN(a) == a.n = 0 /\ a.d = 0
IsInf(a) == a.n # 0 /\ a.d = 0
IsZero(a) == a.n = 0 /\ a.d # 0
IsFinite(a) == a.d # 0

\* canonical form of s * n / d  (n, d >= 0)
Canon(s, n, d) ==
    IF d = 0
    THEN IF n = 0 THEN NaN ELSE [s |-> s, n |-> 1, d |-> 0]
    ELSE IF n = 0 THEN [s |-> s, n |-> 0, d |-> 1]
    ELSE LET g == GCD(n, d) IN [s |-> s, n |-> n \div g, d |-> d \div g]

\* the integer i
Num(i) == IF i < 0 THEN [s |-> -1, n |-> -i, d |-> 1] ELSE [s |-> 1, n |-> i, d |-> 1]
\* the literal p / q  (p, q > 0)
Frac(p, q) == Canon(1, p, q)

Neg(a) == IF IsNaN(a) THEN NaN ELSE [a EXCEPT !.s = -a.s]
Abs(a) == [a EXCEPT !.s = 1]
\* products and sums cancel common factors before multiplying
Mul(a, b) ==
    LET g1 == IF a.n = 0 \/ b.d = 0 THEN 1 ELSE GCD(a.n, b.d)
        g2 == IF b.n = 0 \/ a.d = 0 THEN 1 ELSE GCD(b.n, a.d)
    IN  Canon(a.s * b.s, (a.n \div g1) * (b.n \div g2), (a.d \div g2) * (b.d \div g1))
Div(a, b) == Mul(a, Canon(b.s, b.d, b.n))
Add(a, b) ==
    IF IsNaN(a) \/ IsNaN(b) THEN NaN
    ELSE IF IsInf(a) THEN (IF IsInf(b) /\ b.s # a.s THEN NaN ELSE a)
    ELSE IF IsInf(b) THEN b
    ELSE LET g == GCD(a.d, b.d)
             num == a.s * a.n * (b.d \div g) + b.s * b.n * (a.d \div g)
         IN  IF num = 0
             THEN [s |-> IF a.s = -1 /\ b.s = -1 THEN -1 ELSE 1, n |-> 0, d |-> 1]
             ELSE Canon(IF num < 0 THEN -1 ELSE 1, IF num < 0 THEN -num ELSE num,
                        (a.d \div g) * b.d)
Sub(a, b) == Add(a, Neg(b))

\* n1/d1 < n2/d2 for non-negative fractions, by their continued fractions
RECURSIVE LtPos(_, _, _, _)
LtPos(n1, d1, n2, d2) ==
    IF n1 \div d1 # n2 \div d2 THEN n1 \div d1 < n2 \div d2
    ELSE IF n1 % d1 = 0 THEN n2 % d2 # 0
    ELSE IF n2 % d2 = 0 THEN FALSE
    ELSE LtPos(d2, n2 % d2, d1, n1 % d1)

\* a < b
Lt(a, b) ==
    /\ ~IsNaN(a) /\ ~IsNaN(b)
    /\ IF IsInf(a) \/ IsInf(b)
       THEN IF IsInf(a) /\ IsInf(b) THEN a.s < b.s
            ELSE IF IsInf(a) THEN a.s = -1 ELSE b.s = 1
       ELSE IF a.n = 0 \/ b.n = 0 \/ a.s # b.s
       THEN a.s * a.n < b.s * b.n
       ELSE IF a.s = 1 THEN LtPos(a.n, a.d, b.n, b.d)
       ELSE LtPos(b.n, b.d, a.n, a.d)
Gt(a, b) == Lt(b, a)
\* a <= b
Le(a, b) == ~IsNaN(a) /\ ~IsNaN(b) /\ ~Lt(b, a)
Ge(a, b) == Le(b, a)
\* a === b
Eq(a, b) == ~IsNaN(a) /\ ~IsNaN(b) /\ ~Lt(a, b) /\ ~Lt(b, a)

\* Math.min(a, b): NaN is contagious, -0 is below +0
Min2(a, b) ==
    IF IsNaN(a) \/ IsNaN(b) THEN NaN
    ELSE IF Lt(a, b) THEN a
    ELSE IF Lt(b, a) THEN b
    ELSE IF a.s = -1 THEN a ELSE b
\* Math.max(a, b)
Max2(a, b) ==
    IF IsNaN(a) \/ IsNaN(b) THEN NaN
    ELSE IF Lt(a, b) THEN b
    ELSE IF Lt(b, a) THEN a
    ELSE IF a.s = 1 THEN a ELSE b

\* v || 0 : a falsy number (0, -0, NaN) becomes 0
OrZero(a) == IF IsNaN(a) \/ IsZero(a) THEN Num(0) ELSE a

\* Math.sqrt(q) < t, for q the sum of two squares
SqrtLt(q, t) ==
    /\ ~IsNaN(q) /\ ~IsNaN(t)
    /\ t.s = 1 /\ ~IsZero(t)
    /\ Lt(q, Mul(t, t))

Pt(x, y) == [x |-> x, y |-> y]

\* null, and a non-null value
Null == <<>>
Some(v) == <<v>>
Val(o) == o[1]

-----------------------------------------------------------------------------
(* Entities.  An entity is a record                                        *)
(*   [id, type, vertices, position, text, selected]                        *)
(* id 0 is a missing (falsy) id; vertices is Null or the array of the     *)
(* endpoints; position is Null or Some(point); text is a sequence of       *)
(* characters; a missing selected flag is FALSE.  A missing coordinate     *)
(* component is NaN: every read of a coordinate is of the form `c || 0`.   *)

Line(id, x1, y1, x2, y2) ==
    [id |-> id, type |-> "LINE",
     vertices |-> <<Pt(Num(x1), Num(y1)), Pt(Num(x2), Num(y2))>>,
     position |-> Null, text |-> <<>>, selected |-> FALSE]
Text(id, x, y, str) ==
    [id |-> id, type |-> "TEXT", vertices |-> Null,
     position |-> Some(Pt(Num(x), Num(y))), text |-> str, selected |-> FALSE]
\* the entity lists the collaborator supplies: a drawing of a line and a
\* text whose anchor lies inside the bounding box of the line, and the line
\* alone, lacking its id
RawLists ==
    { <<Line(1, 0, 0, 10, 5), Text(2, 2, 4, <<"A", "B">>)>>,
      <<Line(0, 0, 0, 10, 5)>> }

\* pointer positions, relative to the canvas: in the fitted view of the
\* drawing the first is the middle of the line, the second is empty space,
\* and the rectangle they span holds the text anchor and no line endpoint
Points ==
    { Pt(Num(400), Num(300)), Pt(Num(160), Num(180)) }

\* primary and secondary button
Buttons == {0, 2}
Keys == {"Shift", "Delete", "Backspace", "Escape"}

\* array.includes(id)
Includes(ids, id) == \E i \in 1..Len(ids) : ids[i] = id

IsLine(e) == e.type = "LINE" /\ e.vertices # Null
IsText(e) == e.type = "TEXT" /\ e.position # Null
X1(e) == OrZero(e.vertices[1].x)
Y1(e) == OrZero(e.vertices[1].y)
X2(e) == OrZero(e.vertices[2].x)
Y2(e) == OrZero(e.vertices[2].y)
PX(e) == OrZero(Val(e.position).x)
PY(e) == OrZero(Val(e.position).y)

-----------------------------------------------------------------------------
(* Bounds Calculator and fit transform *)

DefaultBounds == [minX |-> Num(-10), minY |-> Num(-10), maxX |-> Num(10), maxY |-> Num(10)]

\* one iteration of the forEach of calculateBounds
ExtendBounds(b, e) ==
    IF IsLine(e)
    THEN [minX |-> Min2(Min2(b.minX, X1(e)), X2(e)),
          minY |-> Min2(Min2(b.minY, Y1(e)), Y2(e)),
          maxX |-> Max2(Max2(b.maxX, X1(e)), X2(e)),
          maxY |-> Max2(Max2(b.maxY, Y1(e)), Y2(e))]
    ELSE IF IsText(e)
    THEN [minX |-> Min2(b.minX, PX(e)), minY |-> Min2(b.minY, PY(e)),
          maxX |-> Max2(b.maxX, PX(e)), maxY |-> Max2(b.maxY, PY(e))]
    ELSE b

RECURSIVE FoldBounds(_, _, _)
FoldBounds(es, i, b) ==
    IF i > Len(es) THEN b ELSE FoldBounds(es, i + 1, ExtendBounds(b, es[i]))

\* "Add some padding"
padding(b) == Mul(Max2(Sub(b.maxX, b.minX), Sub(b.maxY, b.minY)), Frac(1, 10))

PadBounds(b, pad) ==
    [minX |-> Sub(b.minX, pad), minY |-> Sub(b.minY, pad),
     maxX |-> Add(b.maxX, pad), maxY |-> Add(b.maxY, pad)]

WithPadding(b) == PadBounds(b, padding(b))

\* entity.vertices[1].x of a line with fewer than two vertices reads a
\* property of undefined, which throws a TypeError
readThrows(e) == e.type = "LINE" /\ e.vertices # Null /\ Len(e.vertices) < 2

\* calculateBounds throws on the list es
calculateBoundsThrows(es) == \E i \in 1..Len(es) : readThrows(es[i])

calculateBounds(es) ==
    IF Len(es) = 0 THEN DefaultBounds
    ELSE WithPadding(FoldBounds(es, 1, [minX |-> Infinity, minY |-> Infinity,
                                        maxX |-> NegInfinity, maxY |-> NegInfinity]))

\* "Calculate scale to fit the drawing in the canvas with some margin"
newScale(boundWidth, boundHeight) ==
    Mul(Min2(Div(Num(width), boundWidth), Div(Num(height), boundHeight)), Frac(9, 10))

\* "Calculate center offset"
centerOffset(bounds, boundWidth, boundHeight, scl) ==
    Pt(Sub(Div(Num(width), Num(2)),
           Mul(Add(bounds.minX, Div(boundWidth, Num(2))), scl)),
       Add(Div(Num(height), Num(2)),
           Mul(Add(bounds.minY, Div(boundHeight, Num(2))), scl)))

FitScaled(bounds, boundWidth, boundHeight, scl) ==
    [scale |-> scl, pan |-> centerOffset(bounds, boundWidth, boundHeight, scl)]

FitSized(bounds, boundWidth, boundHeight) ==
    FitScaled(bounds, boundWidth, boundHeight, newScale(boundWidth, boundHeight))

FitBounds(bounds) ==
    FitSized(bounds, Sub(bounds.maxX, bounds.minX), Sub(bounds.maxY, bounds.minY))

\* the scale and pan the fit effect sets
fitTransform(es) == FitBounds(calculateBounds(es))

-----------------------------------------------------------------------------
(* Coordinate transform and hit-testing *)

screenToWorld(s, x, y) ==
    Pt(Div(Sub(x, s.pan.x), s.scale), Neg(Div(Sub(y, s.pan.y), s.scale)))

\* the distance test of isPointNearLine, (dx, dy) leading from the closest
\* point of the segment to the point
NearBy(dx, dy, threshold) == SqrtLt(Add(Mul(dx, dx), Mul(dy, dy)), threshold)

\* variant: the projection is not clamped to the segment
NearParam_Unclamped(point, lineStart, lineEnd, C, D, param, threshold) ==
    NearBy(Sub(point.x, Add(lineStart.x, Mul(param, C))),
           Sub(point.y, Add(lineStart.y, Mul(param, D))),
           threshold)

\* the closest point (xx, yy) of the segment, param being the position of the
\* projection along it
NearParam(point, lineStart, lineEnd, C, D, param, threshold) ==
    NearBy(Sub(point.x, IF Lt(param, Num(0)) THEN lineStart.x
                        ELSE IF Gt(param, Num(1)) THEN lineEnd.x
                        ELSE Add(lineStart.x, Mul(param, C))),
           Sub(point.y, IF Lt(param, Num(0)) THEN lineStart.y
                        ELSE IF Gt(param, Num(1)) THEN lineEnd.y
                        ELSE Add(lineStart.y, Mul(param, D))),
           threshold)

NearDot(point, lineStart, lineEnd, C, D, dot, lenSq, threshold) ==
    NearParam(point, lineStart, lineEnd, C, D,
              IF ~Eq(lenSq, Num(0)) THEN Div(dot, lenSq) ELSE Num(-1), threshold)

NearVectors(point, lineStart, lineEnd, A, B, C, D, threshold) ==
    NearDot(point, lineStart, lineEnd, C, D,
            Add(Mul(A, C), Mul(B, D)), Add(Mul(C, C), Mul(D, D)), threshold)

isPointNearLine(point, lineStart, lineEnd, threshold) ==
    NearVectors(point, lineStart, lineEnd,
                Sub(point.x, lineStart.x), Sub(point.y, lineStart.y),
                Sub(lineEnd.x, lineStart.x), Sub(lineEnd.y, lineStart.y), threshold)

\* whether the loop of findEntityAtPosition returns at entity e
HitsEntity(s, e, worldPos) ==
    \/ /\ IsLine(e)
       /\ isPointNearLine(worldPos, Pt(X1(e), Y1(e)), Pt(X2(e), Y2(e)),
                          Div(Num(PickRadiusPx), s.scale))
    \/ /\ IsText(e)
       /\ LET textLen == Div(Mul(Num(Len(e.text)), Num(GlyphWidthPx)), s.scale)
              margin == Div(Num(TextMarginPx), s.scale)
          IN  /\ Ge(worldPos.x, Sub(PX(e), margin))
              /\ Le(worldPos.x, Add(Add(PX(e), textLen), margin))
              /\ Ge(worldPos.y, Sub(PY(e), Div(Num(TextHeightPx), s.scale)))
              /\ Le(worldPos.y, Add(PY(e), margin))

\* variant: the last match of the loop wins
FirstHit_LastMatch(s, hits) ==
    IF hits = {} THEN 0
    ELSE s.entities[CHOOSE i \in hits : \A j \in hits : i >= j].id

\* id of the first entity of the store among those at the indices hits
FirstHit(s, hits) ==
    IF hits = {} THEN 0
    ELSE s.entities[CHOOSE i \in hits : \A j \in hits : i <= j].id

\* id of the first entity in store order under the point, 0 for null
findEntityAtPosition(s, x, y) ==
    FirstHit(s, { i \in 1..Len(s.entities) :
                    HitsEntity(s, s.entities[i], screenToWorld(s, x, y)) })

-----------------------------------------------------------------------------
(* The component state as one record, as a handler's closure sees it.      *)
(* entitiesChanged / selectedChanged record that setEntities /             *)
(* setSelectedEntityIds was called with a new array (a new identity, even  *)
(* when the content is equal); calls is the output of the event: the       *)
(* entity lists it passes to onDxfChange, a prop taken to be supplied.     *)

S ==
    [dxf |-> dxf, scale |-> scale, pan |-> pan, isDragging |-> isDragging,
     dragStart |-> dragStart, entities |-> entities,
     selectedEntityIds |-> selectedEntityIds,
     isMovingSelection |-> isMovingSelection, selectionStart |-> selectionStart,
     selectionBox |-> selectionBox, mode |-> mode, isShiftPressed |-> isShiftPressed,
     entitiesChanged |-> FALSE, selectedChanged |-> FALSE, calls |-> <<>>]

\* the gesture state of s: Idle, Panning, BoxSelecting or Dragging
Panning(s) == s.isDragging
BoxSelecting(s) == s.selectionStart # Null
Dragging(s) == s.isMovingSelection
Idle(s) == ~Panning(s) /\ ~BoxSelecting(s) /\ ~Dragging(s)
Gesture(s) == <<Panning(s), BoxSelecting(s), Dragging(s)>>

\* [...new Set(ids)] : first occurrences, in order
RECURSIVE Dedupe(_)
Dedupe(ids) ==
    IF ids = <<>> THEN <<>>
    ELSE LET front == Dedupe(SubSeq(ids, 1, Len(ids) - 1))
             last == ids[Len(ids)]
         IN  IF Includes(front, last) THEN front ELSE Append(front, last)

-----------------------------------------------------------------------------
(* Effects *)

\* variant: every entity receives a generated id
entitiesWithIds_Regenerates(raw, gen) ==
    [i \in 1..Len(raw) |-> [raw[i] EXCEPT !.id = gen[i]]]

\* the ingestion effect: entities of dxf, gen[i] being what generateId
\* returns for the i-th entity
entitiesWithIds(raw, gen) ==
    [i \in 1..Len(raw) |-> IF raw[i].id = 0 THEN [raw[i] EXCEPT !.id = gen[i]] ELSE raw[i]]

\* setScale and setPan of the fit effect
SetView(s, f) == [s EXCEPT !.scale = f.scale, !.pan = f.pan]

\* variant: the fit effect also runs on an empty list
fitEffect_FitsEmpty(s) == SetView(s, fitTransform(s.entities))

\* the effect that fits the view to the entities
fitEffect(s) ==
    IF Len(s.entities) = 0 THEN s ELSE SetView(s, fitTransform(s.entities))

\* the effect that copies the selection into the selected flags
selectionFlagEffect(s) ==
    LET prevEntities == s.entities
    IN  [s EXCEPT !.entities =
                      [i \in 1..Len(prevEntities) |->
                          [prevEntities[i] EXCEPT
                              !.selected = Includes(s.selectedEntityIds, prevEntities[i].id)]],
                  !.entitiesChanged = TRUE]

\* the committed state, its pending changes being handed to the effects
Committed(r) == [r EXCEPT !.entitiesChanged = FALSE, !.selectedChanged = FALSE]

\* the effects, in the order of their declaration
RunEffects(r, c) ==
    IF r.selectedChanged
    THEN selectionFlagEffect(IF r.entitiesChanged THEN fitEffect(c) ELSE c)
    ELSE IF r.entitiesChanged THEN fitEffect(c) ELSE c

\* one commit: the effects whose dependencies changed run on the committed
\* state, and their updates form the next commit
Commit(r) == RunEffects(r, Committed(r))

\* renders and effects up to quiescence
Settle(r) == Commit(Commit(r))

-----------------------------------------------------------------------------
(* Handlers: the state after the handler's updates, before the effects *)

\* "Right-click to enter move mode"
enterMoveMode(s, entityId) ==
    LET isSel == Includes(s.selectedEntityIds, entityId)
    IN  [s EXCEPT !.mode = "move",
                  !.selectedEntityIds = IF ~isSel THEN <<entityId>> ELSE @,
                  !.selectedChanged = ~isSel,
                  !.isMovingSelection = TRUE]

\* variant: the move gesture starts without a change of mode
moveSelected_KeepsMode(s) ==
    [s EXCEPT !.isMovingSelection = TRUE]

\* "Left-click on already selected entity to move"
moveSelected(s) ==
    [s EXCEPT !.mode = "move", !.isMovingSelection = TRUE]

\* variant: selecting an entity also starts the move gesture
selectEntity_StartsMove(s, entityId) ==
    [s EXCEPT !.selectedEntityIds = IF ~s.isShiftPressed THEN <<entityId>>
                                    ELSE Append(@, entityId),
              !.selectedChanged = TRUE,
              !.isMovingSelection = TRUE]

\* variant: the selection is replaced whether or not Shift is held
selectEntity_IgnoresShift(s, entityId) ==
    [s EXCEPT !.selectedEntityIds = <<entityId>>, !.selectedChanged = TRUE]

\* "Left-click on non-selected entity to select"
selectEntity(s, entityId) ==
    [s EXCEPT !.selectedEntityIds = IF ~s.isShiftPressed THEN <<entityId>>
                                    ELSE Append(@, entityId),
              !.selectedChanged = TRUE]

\* variant: a selection box is started in either mode
clickEmptySpace_AlwaysBox(s, x, y) ==
    [s EXCEPT !.selectionStart = Some(Pt(x, y)),
              !.selectionBox = Some([x |-> x, y |-> y,
                                     width |-> Num(0), height |-> Num(0)]),
              !.selectedEntityIds = IF ~s.isShiftPressed THEN <<>> ELSE @,
              !.selectedChanged = ~s.isShiftPressed]

\* variant: the press on empty space leaves the selection to the release
clickEmptySpace_KeepsSelection(s, x, y) ==
    IF s.mode = "select"
    THEN [s EXCEPT !.selectionStart = Some(Pt(x, y)),
                   !.selectionBox = Some([x |-> x, y |-> y,
                                          width |-> Num(0), height |-> Num(0)])]
    ELSE [s EXCEPT !.isDragging = TRUE]

\* "Clicking on empty space": "Start a selection box or pan based on mode"
clickEmptySpace(s, x, y) ==
    IF s.mode = "select"
    THEN [s EXCEPT !.selectionStart = Some(Pt(x, y)),
                   !.selectionBox = Some([x |-> x, y |-> y,
                                          width |-> Num(0), height |-> Num(0)]),
                   !.selectedEntityIds = IF ~s.isShiftPressed THEN <<>> ELSE @,
                   !.selectedChanged = ~s.isShiftPressed]
    ELSE [s EXCEPT !.isDragging = TRUE]

\* the branches of handleMouseDown, entityId being the entity under the pointer
MouseDownOn(s, x, y, button, entityId) ==
    IF entityId # 0 /\ (Includes(s.selectedEntityIds, entityId) \/ button = 0)
    THEN IF button = 2 THEN enterMoveMode(s, entityId)
         ELSE IF Includes(s.selectedEntityIds, entityId) THEN moveSelected(s)
         ELSE selectEntity(s, entityId)
    ELSE IF button = 0 THEN clickEmptySpace(s, x, y)
    ELSE s

\* setDragStart
SetDragStart(r, x, y) == [r EXCEPT !.dragStart = Pt(x, y)]

handleMouseDown(s, x, y, button) ==
    SetDragStart(MouseDownOn(s, x, y, button, findEntityAtPosition(s, x, y)), x, y)

\* which branch of handleMouseMove runs
MoveBranch(s) ==
    IF s.selectionStart # Null /\ s.mode = "select" THEN "box"
    ELSE IF s.isMovingSelection /\ Len(s.selectedEntityIds) > 0 THEN "translate"
    ELSE IF s.isDragging THEN "pan"
    ELSE "hover"

\* variant: the map translates every entity
translateEntity_MovesAll(s, e, dx, dy) ==
    IF IsLine(e)
    THEN [e EXCEPT !.vertices = <<Pt(Add(X1(e), dx), Add(Y1(e), dy)),
                                  Pt(Add(X2(e), dx), Add(Y2(e), dy))>>]
    ELSE IF IsText(e)
    THEN [e EXCEPT !.position = Some(Pt(Add(PX(e), dx), Add(PY(e), dy)))]
    ELSE e

\* the map of handleMouseMove over one entity
translateEntity(s, e, dx, dy) ==
    IF ~Includes(s.selectedEntityIds, e.id) THEN e
    ELSE IF IsLine(e)
    THEN [e EXCEPT !.vertices = <<Pt(Add(X1(e), dx), Add(Y1(e), dy)),
                                  Pt(Add(X2(e), dx), Add(Y2(e), dy))>>]
    ELSE IF IsText(e)
    THEN [e EXCEPT !.position = Some(Pt(Add(PX(e), dx), Add(PY(e), dy)))]
    ELSE e

handleMouseMove(s, x, y) ==
    CASE MoveBranch(s) = "box" ->
           LET a == Val(s.selectionStart)
           IN  [s EXCEPT !.selectionBox =
                   Some([x |-> Min2(a.x, x), y |-> Min2(a.y, y),
                         width |-> Abs(Sub(x, a.x)), height |-> Abs(Sub(y, a.y))])]
      [] MoveBranch(s) = "translate" ->
           LET dx == Div(Sub(x, s.dragStart.x), s.scale)
               dy == Mul(Div(Sub(y, s.dragStart.y), s.scale), Num(-1))
           IN  [s EXCEPT !.entities = [i \in 1..Len(@) |-> translateEntity(s, @[i], dx, dy)],
                         !.entitiesChanged = TRUE,
                         !.dragStart = Pt(x, y)]
      [] MoveBranch(s) = "pan" ->
           [s EXCEPT !.pan = Pt(Add(@.x, Sub(x, s.dragStart.x)),
                                Add(@.y, Sub(y, s.dragStart.y))),
                     !.dragStart = Pt(x, y)]
      [] OTHER -> s

\* variant: a line is in the box when both endpoints are
InBox_BothEndpoints(e, b) ==
    LET in(px, py) == /\ Ge(px, b.minX) /\ Le(px, b.maxX)
                      /\ Ge(py, b.minY) /\ Le(py, b.maxY)
    IN  IF IsLine(e) THEN in(X1(e), Y1(e)) /\ in(X2(e), Y2(e))
        ELSE IF IsText(e) THEN in(PX(e), PY(e))
        ELSE FALSE

\* the filter of handleMouseUp: entity e has a defining point in the box
InBox(e, b) ==
    LET in(px, py) == /\ Ge(px, b.minX) /\ Le(px, b.maxX)
                      /\ Ge(py, b.minY) /\ Le(py, b.maxY)
    IN  IF IsLine(e) THEN in(X1(e), Y1(e)) \/ in(X2(e), Y2(e))
        ELSE IF IsText(e) THEN in(PX(e), PY(e))
        ELSE FALSE

\* the selection box in world coordinates
worldSelectionBox(s) ==
    LET sb == Val(s.selectionBox)
    IN  [minX |-> Div(Sub(sb.x, s.pan.x), s.scale),
         minY |-> Neg(Div(Sub(Add(sb.y, sb.height), s.pan.y), s.scale)),
         maxX |-> Div(Sub(Add(sb.x, sb.width), s.pan.x), s.scale),
         maxY |-> Neg(Div(Sub(sb.y, s.pan.y), s.scale))]

\* selectedEntities.map(e => e.id)
IdsOf(es) == [i \in 1..Len(es) |-> es[i].id]

\* the entities the box b selects, in store order
selectedEntities(s, b) == SelectSeq(s.entities, LAMBDA e : InBox(e, b))

\* ids of the entities the selection box selects
boxIds(s) == IdsOf(selectedEntities(s, worldSelectionBox(s)))

\* "Finalize selection box if we were drawing one"
finalizeSelectionBox(s) ==
    IF s.selectionStart # Null /\ s.selectionBox # Null /\ s.mode = "select"
    THEN [s EXCEPT !.selectedEntityIds = IF s.isShiftPressed THEN Dedupe(@ \o boxIds(s))
                                         ELSE boxIds(s),
                   !.selectedChanged = TRUE]
    ELSE s

\* "Finalize moving entities": the list passed to onDxfChange, if any
finalizeMoving(s) ==
    IF s.isMovingSelection /\ Len(s.selectedEntityIds) > 0 THEN <<s.entities>> ELSE <<>>

\* variant: the release leaves the move flag set
handleMouseUp_KeepsMoving(s, x, y) ==
    [finalizeSelectionBox(s) EXCEPT !.calls = @ \o finalizeMoving(s),
                                    !.isDragging = FALSE,
                                    !.selectionStart = Null, !.selectionBox = Null]

handleMouseUp(s, x, y) ==
    [finalizeSelectionBox(s) EXCEPT !.calls = @ \o finalizeMoving(s),
                                    !.isDragging = FALSE, !.isMovingSelection = FALSE,
                                    !.selectionStart = Null, !.selectionBox = Null]

handleContextMenu(s) ==
    [s EXCEPT !.mode = IF @ = "select" THEN "move" ELSE "select"]

\* variant: the wheel rescales about the origin of the canvas
handleWheel_KeepsPan(s, x, y, deltaY) ==
    [s EXCEPT !.scale = Mul(@, IF deltaY > 0 THEN Frac(19, 20) ELSE Frac(21, 20))]

handleWheel(s, x, y, deltaY) ==
    LET zoomFactor == IF deltaY > 0 THEN Frac(19, 20) ELSE Frac(21, 20)
    IN  [s EXCEPT !.scale = Mul(@, zoomFactor),
                  !.pan = Pt(Sub(x, Mul(Sub(x, @.x), zoomFactor)),
                             Sub(y, Mul(Sub(y, @.y), zoomFactor)))]

\* variant: the filter keeps the selected entities
newEntities_KeepsSelected(s) ==
    SelectSeq(s.entities, LAMBDA e : Includes(s.selectedEntityIds, e.id))

\* the store without the selected entities
newEntities(s) ==
    SelectSeq(s.entities, LAMBDA e : ~Includes(s.selectedEntityIds, e.id))

\* variant: the deletion leaves the selection as it was
deleteSelected_KeepsSelection(s) ==
    [s EXCEPT !.entities = newEntities(s), !.entitiesChanged = TRUE,
              !.calls = Append(@, newEntities(s))]

\* "Delete selected entities"
deleteSelected(s) ==
    [s EXCEPT !.entities = newEntities(s), !.entitiesChanged = TRUE,
              !.selectedEntityIds = <<>>, !.selectedChanged = TRUE,
              !.calls = Append(@, newEntities(s))]

\* variant: Escape empties the selection and leaves the box in progress
cancelSelection_KeepsBox(s) ==
    [s EXCEPT !.selectedEntityIds = <<>>, !.selectedChanged = TRUE]

\* "Escape to deselect"
cancelSelection(s) ==
    [s EXCEPT !.selectedEntityIds = <<>>, !.selectedChanged = TRUE,
              !.selectionBox = Null, !.selectionStart = Null]

\* variant: Delete and Backspace delete whatever the size of the selection
handleKeyDown_DeletesAlways(s, key) ==
    LET a == IF key = "Shift" THEN [s EXCEPT !.isShiftPressed = TRUE] ELSE s
        b == IF key \in {"Delete", "Backspace"}
             THEN deleteSelected(a)
             ELSE a
    IN  IF key = "Escape" THEN cancelSelection(b) ELSE b

handleKeyDown(s, key) ==
    LET a == IF key = "Shift" THEN [s EXCEPT !.isShiftPressed = TRUE] ELSE s
        b == IF key \in {"Delete", "Backspace"} /\ Len(s.selectedEntityIds) > 0
             THEN deleteSelected(a)
             ELSE a
    IN  IF key = "Escape" THEN cancelSelection(b) ELSE b

handleKeyUp(s, key) ==
    IF key = "Shift" THEN [s EXCEPT !.isShiftPressed = FALSE] ELSE s

\* the Select and Move buttons
clickMode(s, m) == [s EXCEPT !.mode = m]

\* the Clear Selection button
clickClearSelection(s) ==
    [s EXCEPT !.selectedEntityIds = <<>>, !.selectedChanged = TRUE]

\* variant: leaving the canvas resets the gesture without resolving it
onMouseLeave_ResetOnly(s, x, y) ==
    [s EXCEPT !.isDragging = FALSE, !.isMovingSelection = FALSE,
              !.selectionStart = Null, !.selectionBox = Null]

\* the canvas props: both events are bound to handleMouseUp
onMouseUp(s, x, y) == handleMouseUp(s, x, y)
onMouseLeave(s, x, y) == handleMouseUp(s, x, y)

-----------------------------------------------------------------------------
(* Render loop.  The canvas is modelled by what the last frame painted on  *)
(* it: the grid (its spacing and phase), the shapes in paint order with    *)
(* their screen coordinates, the selection box and the status lines.       *)

\* the canvas element before any frame
Blank ==
    [grid |-> <<>>, shapes |-> <<>>, box |-> Null, modeLine |-> "", selectedLine |-> 0]

\* no effect waits to run
NoEffects == [entitiesChanged |-> FALSE, selectedChanged |-> FALSE]

\* variant: the Y axis is not flipped
worldToScreen_NoFlip(s, x, y) ==
    Pt(Add(Mul(x, s.scale), s.pan.x), Add(Mul(y, s.scale), s.pan.y))

\* the screen point drawLine and drawText paint the world point (x, y) at
worldToScreen(s, x, y) ==
    Pt(Add(Mul(x, s.scale), s.pan.x), Add(Mul(Neg(y), s.scale), s.pan.y))

\* what drawLine / drawText paint for entity e
drawLine(s, e, selected) ==
    [kind |-> "line", from |-> worldToScreen(s, X1(e), Y1(e)),
     to |-> worldToScreen(s, X2(e), Y2(e)), text |-> <<>>, selected |-> selected]
drawText(s, e, selected) ==
    [kind |-> "text", from |-> worldToScreen(s, PX(e), PY(e)),
     to |-> worldToScreen(s, PX(e), PY(e)), text |-> e.text, selected |-> selected]

\* one pass of renderCanvas over the entities whose flag is selected
RECURSIVE drawEntities(_, _, _, _)
drawEntities(s, es, i, selected) ==
    IF i > Len(es) THEN <<>>
    ELSE (IF es[i].selected # selected THEN <<>>
          ELSE (IF IsLine(es[i]) THEN <<drawLine(s, es[i], selected)>> ELSE <<>>)
               \o (IF IsText(es[i]) THEN <<drawText(s, es[i], selected)>> ELSE <<>>))
         \o drawEntities(s, es, i + 1, selected)

\* the canvas after renderCanvas of the render whose state is s ran on cv
renderCanvas(cv, s) ==
    IF Len(s.entities) = 0 THEN cv
    ELSE [grid |-> <<Mul(Num(GridSize), s.scale), s.pan>>,
          shapes |-> drawEntities(s, s.entities, 1, FALSE)
                     \o drawEntities(s, s.entities, 1, TRUE),
          box |-> s.selectionBox,
          modeLine |-> IF s.mode = "select" THEN "Select" ELSE "Move",
          selectedLine |-> Len(s.selectedEntityIds)]

\* what renderCanvas closes over: its dependency list
RenderCanvasOf(s) ==
    [entities |-> s.entities, scale |-> s.scale, pan |-> s.pan,
     selectionBox |-> s.selectionBox, mode |-> s.mode,
     selectedEntityIds |-> s.selectedEntityIds]

\* the render of r follows the render of s: useCallback returns a new function
\* when a dependency has changed.  (An update that stores an object equal to
\* the one it replaces also restarts the loop, with an equal closure; the
\* frame then differs by its handle only and the case is not told apart.)
renderCanvasReplaced(s, r) ==
    r.entitiesChanged \/ r.selectedChanged \/ RenderCanvasOf(r) # RenderCanvasOf(s)

\* requestAnimationFrame: the browser holds callback animate of the loop that
\* closes over rc and returns a handle no one holds
requestAnimationFrame(fs, ref, rc) ==
    LET id == CHOOSE i \in 1..(Cardinality(fs) + 2) :
                  /\ i # ref /\ \A f \in fs : f.id # i
                  /\ \A j \in 1..(i - 1) : j = ref \/ \E f \in fs : f.id = j
    IN  [frames |-> fs \cup {[id |-> id, renderCanvas |-> rc]}, ref |-> id]

cancelAnimationFrame(fs, id) == { f \in fs : f.id # id }

\* variant: the cleanup leaves the scheduled frame in place
cleanup_KeepsFrame(fs, ref) == fs

\* the cleanup of the animation loop effect
cleanup(fs, ref) == IF ref # 0 THEN cancelAnimationFrame(fs, ref) ELSE fs

\* the animation loop effect after the render of r, which follows that of s:
\* the cleanup of the previous run, then the new loop
animationLoopEffect(fs, ref, s, r) ==
    IF renderCanvasReplaced(s, r)
    THEN requestAnimationFrame(cleanup(fs, ref), ref, RenderCanvasOf(r))
    ELSE [frames |-> fs, ref |-> ref]

-----------------------------------------------------------------------------
(* The state machine *)

\* the state of the first render
InitialState(raw) ==
    [dxf |-> raw, scale |-> Num(1), pan |-> Pt(Num(0), Num(0)), isDragging |-> FALSE,
     dragStart |-> Pt(Num(0), Num(0)), entities |-> <<>>, selectedEntityIds |-> <<>>,
     isMovingSelection |-> FALSE, selectionStart |-> Null, selectionBox |-> Null,
     mode |-> "select", isShiftPressed |-> FALSE,
     entitiesChanged |-> FALSE, selectedChanged |-> FALSE, calls |-> <<>>]

\* the ingestion effect on a new dxf prop
ingest(s, raw, gen) ==
    [s EXCEPT !.dxf = raw, !.entities = entitiesWithIds(raw, gen), !.entitiesChanged = TRUE]

\* mounting: every effect runs after the first render; the fit effect sees
\* no entity yet and the flag effect maps the ingested list
Mount(raw, gen) ==
    Settle(selectionFlagEffect(ingest(InitialState(raw), raw, gen)))

\* what generateId returns for the entities of raw that lack an id
GenChoices(raw) ==
    { g \in [1..Len(raw) -> 1..MaxGenId] : \A i \in 1..Len(raw) : raw[i].id # 0 => g[i] = 1 }

Apply(r) ==
    /\ dxf' = r.dxf
    /\ scale' = r.scale
    /\ pan' = r.pan
    /\ isDragging' = r.isDragging
    /\ dragStart' = r.dragStart
    /\ entities' = r.entities
    /\ selectedEntityIds' = r.selectedEntityIds
    /\ isMovingSelection' = r.isMovingSelection
    /\ selectionStart' = r.selectionStart
    /\ selectionBox' = r.selectionBox
    /\ mode' = r.mode
    /\ isShiftPressed' = r.isShiftPressed
    /\ UNCHANGED failed

\* the variables hold the state r and no history
StartsAs(r) ==
    /\ dxf = r.dxf
    /\ scale = r.scale
    /\ pan = r.pan
    /\ isDragging = r.isDragging
    /\ dragStart = r.dragStart
    /\ entities = r.entities
    /\ selectedEntityIds = r.selectedEntityIds
    /\ isMovingSelection = r.isMovingSelection
    /\ selectionStart = r.selectionStart
    /\ selectionBox = r.selectionBox
    /\ mode = r.mode
    /\ isShiftPressed = r.isShiftPressed
    /\ translated = FALSE
    /\ nTranslate = 0
    /\ nView = 0
    /\ canvas = Blank
    /\ pending = NoEffects
    /\ mounted = TRUE

\* the animation loop is left out: no frame callback is followed
NoLoop == animationFrameRef = 0 /\ frames = {}

Init ==
    /\ \E raw \in RawLists : \E gen \in GenChoices(raw) : StartsAs(Mount(raw, gen))
    /\ NoLoop
    /\ failed = FALSE

\* the numbers of state r stay within the denominators explored
SmallNum(a) == a.d <= MaxDenominator
SmallPt(q) == SmallNum(q.x) /\ SmallNum(q.y)
Small(r) ==
    /\ SmallNum(r.scale) /\ SmallPt(r.pan)
    /\ \A i \in 1..Len(r.entities) :
          /\ r.entities[i].vertices # Null =>
                \A j \in 1..Len(r.entities[i].vertices) : SmallPt(r.entities[i].vertices[j])
          /\ r.entities[i].position # Null => SmallPt(Val(r.entities[i].position))

\* the fit effect runs after the handler result r0 is committed
Refits(r0) == (r0.entitiesChanged \/ r0.selectedChanged) /\ Len(r0.entities) > 0

\* an event whose handler leaves r0: commit, effects, bookkeeping
Do(r0) ==
    /\ Apply(Settle(r0))
    /\ nView' = IF Refits(r0) THEN 0 ELSE nView
    /\ UNCHANGED <<canvas, pending, animationFrameRef, frames, mounted>>

\* the dxf prop changes
Ingest ==
    \E raw \in RawLists : \E gen \in GenChoices(raw) :
        /\ Do(ingest(S, raw, gen))
        /\ nTranslate' = 0
        /\ UNCHANGED translated

\* the primary button goes down when no gesture is in progress; the secondary
\* button can go down during a gesture
MouseDown ==
    \E p \in Points : \E b \in Buttons :
        /\ b = 0 => Idle(S)
        /\ Do(handleMouseDown(S, p.x, p.y, b))
        /\ UNCHANGED <<translated, nTranslate>>

\* some entity is moved by a translating pointer-move
Translates(s) ==
    /\ MoveBranch(s) = "translate"
    /\ \E i \in 1..Len(s.entities) :
          /\ Includes(s.selectedEntityIds, s.entities[i].id)
          /\ IsLine(s.entities[i]) \/ IsText(s.entities[i])

MouseMove ==
    \E p \in Points :
        \* a gesture's pointer-move carries a new position
        /\ MoveBranch(S) \in {"translate", "pan"} => p # dragStart
        /\ MoveBranch(S) \in {"translate", "pan"} => nTranslate + nView < MaxSteps
        /\ Small(Settle(handleMouseMove(S, p.x, p.y)))
        /\ Apply(Settle(handleMouseMove(S, p.x, p.y)))
        /\ translated' = (translated \/ Translates(S))
        /\ nTranslate' = IF MoveBranch(S) = "translate" THEN nTranslate + 1 ELSE nTranslate
        /\ nView' = IF Refits(handleMouseMove(S, p.x, p.y)) THEN 0
                    ELSE IF MoveBranch(S) = "pan" THEN nView + 1 ELSE nView
        /\ UNCHANGED <<canvas, pending, animationFrameRef, frames, mounted>>

MouseUp ==
    \E p \in Points :
        /\ Do(onMouseUp(S, p.x, p.y))
        /\ translated' = FALSE
        /\ UNCHANGED nTranslate

MouseLeave ==
    \E p \in Points :
        /\ Do(onMouseLeave(S, p.x, p.y))
        /\ translated' = FALSE
        /\ UNCHANGED nTranslate

ContextMenu ==
    /\ Do(handleContextMenu(S))
    /\ UNCHANGED <<translated, nTranslate>>

Wheel ==
    \E p \in Points : \E deltaY \in {-1, 1} :
        /\ nTranslate + nView < MaxSteps
        /\ Small(Settle(handleWheel(S, p.x, p.y, deltaY)))
        /\ Apply(Settle(handleWheel(S, p.x, p.y, deltaY)))
        /\ nView' = nView + 1
        /\ UNCHANGED <<translated, nTranslate, canvas, pending,
                       animationFrameRef, frames, mounted>>

KeyDown ==
    \E k \in Keys :
        /\ Do(handleKeyDown(S, k))
        /\ UNCHANGED <<translated, nTranslate>>

KeyUp ==
    \E k \in Keys :
        /\ Do(handleKeyUp(S, k))
        /\ UNCHANGED <<translated, nTranslate>>

ClickMode ==
    \E m \in {"select", "move"} :
        /\ Do(clickMode(S, m))
        /\ UNCHANGED <<translated, nTranslate>>

ClickClearSelection ==
    /\ Do(clickClearSelection(S))
    /\ UNCHANGED <<translated, nTranslate>>

\* the events of the user
UserEvent ==
    \/ MouseDown
    \/ MouseMove
    \/ MouseUp
    \/ MouseLeave
    \/ ContextMenu
    \/ Wheel
    \/ KeyDown
    \/ KeyUp
    \/ ClickMode
    \/ ClickClearSelection

Next == UserEvent \/ Ingest

\* the component with its collaborator
Spec == Init /\ [][Next]_vars

\* the component on the entity list it was mounted with
SpecLoaded == Init /\ [][UserEvent]_vars

-----------------------------------------------------------------------------
(* Ingestion and fitting on arbitrary lists: the component is mounted with  *)
(* any list of up to MaxListLen entities, which the collaborator then edits *)
(* and supplies again.                                                      *)

\* an entity of a kind the viewer does not draw
Circle(id, x, y) ==
    [id |-> id, type |-> "CIRCLE", vertices |-> Null,
     position |-> Some(Pt(Num(x), Num(y))), text |-> <<>>, selected |-> FALSE]

\* a malformed line: the second endpoint is missing
LineOfOneVertex(id, x, y) ==
    [id |-> id, type |-> "LINE", vertices |-> <<Pt(Num(x), Num(y))>>,
     position |-> Null, text |-> <<>>, selected |-> FALSE]

\* the entities of the lists: a line with and without id, a text with the id
\* of the line, a zero-length line, an entity of unknown kind without id, a
\* line lacking an endpoint
RawEntities ==
    { Line(1, 0, 0, 10, 5), Line(0, 0, 0, 10, 5), Text(1, 2, 4, <<"A", "B">>),
      Line(3, 1, 1, 1, 1), Circle(0, 3, 3), LineOfOneVertex(2, 4, 4) }

AnyLists == UNION { [1..n -> RawEntities] : n \in 0..MaxListLen }

\* the fit effect throws on the list raw: the error is not caught and the
\* component is taken down before it shows the list.  The variables then
\* keep the state of the last render whose effects completed (at mount: the
\* first render, of no list).
Fails(raw) == Len(raw) > 0 /\ calculateBoundsThrows(raw)

InitAny ==
    \E raw \in AnyLists : \E gen \in GenChoices(raw) :
        IF Fails(raw)
        THEN /\ StartsAs(InitialState(<<>>)) /\ NoLoop /\ failed = TRUE
        ELSE /\ StartsAs(Mount(raw, gen)) /\ NoLoop /\ failed = FALSE

\* the lists one edit away from list l: an entity appended, the last removed
Edits(l) ==
    { Append(l, e) : e \in IF Len(l) < MaxListLen THEN RawEntities ELSE {} }
        \cup IF l = <<>> THEN {} ELSE { SubSeq(l, 1, Len(l) - 1) }

\* the dxf prop changes: the collaborator supplies its list, edited
IngestAny ==
    \E raw \in Edits(dxf) : \E gen \in GenChoices(raw) :
        /\ ~failed
        /\ IF Fails(raw)
           THEN /\ failed' = TRUE
                /\ UNCHANGED <<dxf, scale, pan, isDragging, dragStart, entities,
                               selectedEntityIds, isMovingSelection, selectionStart,
                               selectionBox, mode, isShiftPressed, nView, canvas, pending,
                               animationFrameRef, frames, mounted>>
           ELSE Do(ingest(S, raw, gen))
        /\ nTranslate' = 0
        /\ UNCHANGED translated

SpecIngest == InitAny /\ [][IngestAny]_vars

-----------------------------------------------------------------------------
(* The component with its animation loop.  Here one step is one render:    *)
(* an event runs its handler and commits the handler's updates, the        *)
(* effects that this render triggers run in a later step and commit their  *)
(* updates in turn, and the animation frame callback paints the state of   *)
(* the last render whenever the browser schedules it.  The display refresh *)
(* is taken to be faster than the user: an input event arrives when the    *)
(* effects have run and a frame has painted the last render.               *)

\* the canvas shows the last render
Painted == canvas = renderCanvas(canvas, S)

\* no effect waits and the canvas shows the last render
Quiescent == mounted /\ pending = NoEffects /\ Painted

\* the animation loop effect of the render of r, which follows the last render
RunLoopEffect(r) ==
    /\ frames' = animationLoopEffect(frames, animationFrameRef, S, r).frames
    /\ animationFrameRef' = animationLoopEffect(frames, animationFrameRef, S, r).ref
    /\ UNCHANGED mounted

\* the render that follows a handler leaving r0; its effects wait
Render(r0) ==
    /\ Quiescent
    /\ Apply(r0)
    /\ pending' = [entitiesChanged |-> r0.entitiesChanged,
                   selectedChanged |-> r0.selectedChanged]
    /\ nView' = IF Refits(r0) THEN 0 ELSE nView
    /\ RunLoopEffect(r0)
    /\ UNCHANGED canvas

\* the waiting effects run and the render of their updates is committed
RunPending ==
    /\ mounted
    /\ pending # NoEffects
    /\ Apply(Commit([S EXCEPT !.entitiesChanged = pending.entitiesChanged,
                              !.selectedChanged = pending.selectedChanged]))
    /\ pending' =
          [entitiesChanged |->
               Commit([S EXCEPT !.entitiesChanged = pending.entitiesChanged,
                                !.selectedChanged = pending.selectedChanged]).entitiesChanged,
           selectedChanged |-> FALSE]
    /\ RunLoopEffect(Commit([S EXCEPT !.entitiesChanged = pending.entitiesChanged,
                                      !.selectedChanged = pending.selectedChanged]))
    /\ UNCHANGED <<translated, nTranslate, nView, canvas>>

\* variant: painting the selection box discards it
Frame_DiscardsBox ==
    \E f \in frames :
        /\ canvas' = IF mounted THEN renderCanvas(canvas, f.renderCanvas) ELSE canvas
        /\ frames' = requestAnimationFrame(frames \ {f}, animationFrameRef,
                                           f.renderCanvas).frames
        /\ animationFrameRef' = requestAnimationFrame(frames \ {f}, animationFrameRef,
                                                      f.renderCanvas).ref
        /\ selectionBox' = Null
        /\ UNCHANGED <<dxf, scale, pan, isDragging, dragStart, entities,
                       selectedEntityIds, isMovingSelection, selectionStart, mode,
                       isShiftPressed, translated, nTranslate, nView, pending, mounted,
                       failed>>

\* animate: the browser runs a frame callback it holds; the callback calls the
\* renderCanvas of its loop (which returns at once when the canvas element is
\* gone) and requests the next frame
Frame ==
    \E f \in frames :
        /\ canvas' = IF mounted THEN renderCanvas(canvas, f.renderCanvas) ELSE canvas
        /\ frames' = requestAnimationFrame(frames \ {f}, animationFrameRef,
                                           f.renderCanvas).frames
        /\ animationFrameRef' = requestAnimationFrame(frames \ {f}, animationFrameRef,
                                                      f.renderCanvas).ref
        /\ UNCHANGED <<dxf, scale, pan, isDragging, dragStart, entities,
                       selectedEntityIds, isMovingSelection, selectionStart, selectionBox,
                       mode, isShiftPressed, translated, nTranslate, nView, pending,
                       mounted, failed>>

\* the parent removes the component: the cleanup of the animation loop effect
\* runs and the updates that wait are dropped
Unmount ==
    /\ mounted
    /\ mounted' = FALSE
    /\ frames' = cleanup(frames, animationFrameRef)
    /\ pending' = NoEffects
    /\ UNCHANGED <<dxf, scale, pan, isDragging, dragStart, entities, selectedEntityIds,
                   isMovingSelection, selectionStart, selectionBox, mode,
                   isShiftPressed, translated, nTranslate, nView, canvas,
                   animationFrameRef, failed>>

OnMouseDown ==
    \E p \in Points : \E b \in Buttons :
        /\ b = 0 => Idle(S)
        /\ Render(handleMouseDown(S, p.x, p.y, b))
        /\ UNCHANGED <<translated, nTranslate>>

OnMouseMove ==
    \E p \in Points :
        /\ Quiescent
        /\ MoveBranch(S) \in {"translate", "pan"} => p # dragStart
        /\ MoveBranch(S) \in {"translate", "pan"} => nTranslate + nView < MaxSteps
        /\ Small(Settle(handleMouseMove(S, p.x, p.y)))
        /\ Apply(handleMouseMove(S, p.x, p.y))
        /\ pending' = [entitiesChanged |-> handleMouseMove(S, p.x, p.y).entitiesChanged,
                       selectedChanged |-> FALSE]
        /\ translated' = (translated \/ Translates(S))
        /\ nTranslate' = IF MoveBranch(S) = "translate" THEN nTranslate + 1 ELSE nTranslate
        /\ nView' = IF Refits(handleMouseMove(S, p.x, p.y)) THEN 0
                    ELSE IF MoveBranch(S) = "pan" THEN nView + 1 ELSE nView
        /\ RunLoopEffect(handleMouseMove(S, p.x, p.y))
        /\ UNCHANGED canvas

OnMouseUp ==
    \E p \in Points :
        /\ Render(onMouseUp(S, p.x, p.y))
        /\ translated' = FALSE
        /\ UNCHANGED nTranslate

OnMouseLeave ==
    \E p \in Points :
        /\ Render(onMouseLeave(S, p.x, p.y))
        /\ translated' = FALSE
        /\ UNCHANGED nTranslate

OnContextMenu ==
    /\ Render(handleContextMenu(S))
    /\ UNCHANGED <<translated, nTranslate>>

OnWheel ==
    \E p \in Points : \E deltaY \in {-1, 1} :
        /\ Quiescent
        /\ nTranslate + nView < MaxSteps
        /\ Small(Settle(handleWheel(S, p.x, p.y, deltaY)))
        /\ Apply(handleWheel(S, p.x, p.y, deltaY))
        /\ nView' = nView + 1
        /\ RunLoopEffect(handleWheel(S, p.x, p.y, deltaY))
        /\ UNCHANGED <<translated, nTranslate, canvas, pending>>

\* the keys pressed while the frames are observed: the Shift modifier, which
\* multiplies the selections and adds no kind of render, is left out
FrameKeys == Keys \ {"Shift"}

OnKeyDown ==
    \E k \in FrameKeys :
        /\ Render(handleKeyDown(S, k))
        /\ UNCHANGED <<translated, nTranslate>>

OnKeyUp ==
    \E k \in FrameKeys :
        /\ Render(handleKeyUp(S, k))
        /\ UNCHANGED <<translated, nTranslate>>

OnClickMode ==
    \E m \in {"select", "move"} :
        /\ Render(clickMode(S, m))
        /\ UNCHANGED <<translated, nTranslate>>

OnClickClearSelection ==
    /\ Render(clickClearSelection(S))
    /\ UNCHANGED <<translated, nTranslate>>

NextFrames ==
    \/ OnMouseDown
    \/ OnMouseMove
    \/ OnMouseUp
    \/ OnMouseLeave
    \/ OnContextMenu
    \/ OnWheel
    \/ OnKeyDown
    \/ OnKeyUp
    \/ OnClickMode
    \/ OnClickClearSelection
    \/ RunPending
    \/ Frame
    \/ Unmount

\* after mounting, the loop of the last render has one frame scheduled
InitFrames ==
    /\ \E raw \in RawLists : \E gen \in GenChoices(raw) :
          /\ StartsAs(Mount(raw, gen))
          /\ frames = {[id |-> 1, renderCanvas |-> RenderCanvasOf(Mount(raw, gen))]}
    /\ animationFrameRef = 1
    /\ failed = FALSE

SpecFrames == InitFrames /\ [][NextFrames]_vars

-----------------------------------------------------------------------------
(* Vocabulary of the properties *)

\* every id of ids is the id of an entity of es
IdsInStore(ids, es) ==
    \A i \in 1..Len(ids) : \E j \in 1..Len(es) : es[j].id = ids[i]

\* the ids of a selection, as a set
IdSet(ids) == { ids[i] : i \in 1..Len(ids) }

\* es without the entities whose id is in ids, order kept
RECURSIVE Without(_, _)
Without(es, ids) ==
    IF es = <<>> THEN <<>>
    ELSE IF Head(es).id \in ids THEN Without(Tail(es), ids)
    ELSE <<Head(es)>> \o Without(Tail(es), ids)

-----------------------------------------------------------------------------
(* Properties *)

\* C1: on a loaded entity list, after any sequence of click-select,
\* box-select, clear-selection and Delete/Backspace operations, every id in
\* the Selection Set is the id of an entity in the Entity Store.
C1_SelectionWithinLoadedStore ==
    IdsInStore(selectedEntityIds, entities)

\* C1 witness: after a deletion, the remaining entity is selected
C1_SelectedAfterDelete ==
    /\ Len(entities) = 1 /\ Len(dxf) = 2
    /\ Len(selectedEntityIds) = 1
    /\ IdsInStore(selectedEntityIds, entities)

\* C2: in every reachable state, also after the collaborator supplied a new
\* entity list while the Selection Set was non-empty, every id in the
\* Selection Set references an entity present in the Entity Store.
C2_SelectionReferencesStore ==
    \A i \in 1..Len(selectedEntityIds) :
        \E j \in 1..Len(entities) : selectedEntityIds[i] = entities[j].id

\* C3: a Delete or Backspace key-down with a non-empty Selection Set makes
\* the Entity Store the previous store without the selected entities (the
\* others unchanged, in order), empties the Selection Set and passes the new
\* list to the callback; deleting the only entity leaves the store empty.
C3_DeleteRemovesSelected ==
    \A key \in {"Delete", "Backspace"} :
        Len(selectedEntityIds) > 0 =>
            LET r == Settle(handleKeyDown(S, key))
                kept == Without(entities, IdSet(selectedEntityIds))
            IN  /\ r.entities = kept
                /\ r.selectedEntityIds = <<>>
                /\ r.calls = <<kept>>
                /\ (Len(entities) = 1 /\ IdsInStore(selectedEntityIds, entities)
                        => r.entities = <<>>)

\* C3 witness: a selected entity is about to be deleted from a store of two,
\* and the other entity stays
C3_DeleteOfOneOfTwo ==
    /\ Len(entities) = 2
    /\ Len(selectedEntityIds) = 1
    /\ Len(Settle(handleKeyDown(S, "Delete")).entities) = 1
    /\ Settle(handleKeyDown(S, "Delete")).calls # <<>>

\* C4: whenever a Dragging gesture has translated at least one entity, once
\* the gesture has ended by pointer-up or pointer-leave (gesture state Idle)
\* the callback has been invoked with a list equal to the Entity Store.
\* (No entity has been deleted since the list was supplied, so no other
\* event has reported the store.)
C4_DragEndReportsStore ==
    translated /\ Len(entities) = Len(dxf) =>
        \A p \in Points :
            \A r \in { Settle(onMouseUp(S, p.x, p.y)), Settle(onMouseLeave(S, p.x, p.y)) } :
                /\ Idle(r)
                /\ r.calls # <<>>
                /\ r.calls[Len(r.calls)] = r.entities

\* C5 as stated: a primary-button pointer-down on an entity enters Dragging
\* when Mode = Select and the entity is selected, and when Mode = Move for
\* any entity; the Selection Set is the current one, or the hit entity if it
\* was empty, and the pointer position is recorded.
C5_DragInMoveModeOnAnyEntity ==
    \A p \in Points :
        LET id == findEntityAtPosition(S, p.x, p.y)
            r == Settle(handleMouseDown(S, p.x, p.y, 0))
        IN  id # 0 /\ (Includes(selectedEntityIds, id) \/ mode = "move") =>
                /\ Dragging(r)
                /\ r.selectedEntityIds =
                       IF selectedEntityIds = <<>> THEN <<id>> ELSE selectedEntityIds
                /\ r.dragStart = p

\* C5 amended: a primary-button pointer-down on an entity enters Dragging
\* exactly when the entity is already selected, in either Mode: Mode becomes
\* Move, the Selection Set is unchanged and the pointer position is recorded.
\* On an entity that is not selected it selects the entity and starts no
\* Dragging, in Move mode as in Select mode.
C5_DragOnlyOnSelectedEntity ==
    \A p \in Points :
        LET id == findEntityAtPosition(S, p.x, p.y)
            r == Settle(handleMouseDown(S, p.x, p.y, 0))
        IN  id # 0 =>
                IF Includes(selectedEntityIds, id)
                THEN /\ Dragging(r)
                     /\ r.mode = "move"
                     /\ r.selectedEntityIds = selectedEntityIds
                     /\ r.dragStart = p
                ELSE /\ Dragging(r) = Dragging(S)
                     /\ Includes(r.selectedEntityIds, id)
                     /\ r.mode = mode

\* C5 witness: in Move mode, Idle, the pointer is over an entity that is not
\* selected, and the pointer-down leaves the gesture Idle
C5_MoveModeOverUnselected ==
    \E p \in Points :
        LET id == findEntityAtPosition(S, p.x, p.y)
        IN  /\ mode = "move" /\ Idle(S)
            /\ id # 0 /\ ~Includes(selectedEntityIds, id)
            /\ Idle(Settle(handleMouseDown(S, p.x, p.y, 0)))

\* C6 as stated: Mode changes only on a context click or a mode button;
\* pointer-down, pointer-move, pointer-up, pointer-leave, wheel and key
\* events leave Mode unchanged.
C6_ModeOnlyToggledExplicitly ==
    /\ \A p \in Points :
          /\ \A b \in Buttons : handleMouseDown(S, p.x, p.y, b).mode = mode
          /\ handleMouseMove(S, p.x, p.y).mode = mode
          /\ onMouseUp(S, p.x, p.y).mode = mode
          /\ onMouseLeave(S, p.x, p.y).mode = mode
          /\ \A deltaY \in {-1, 1} : handleWheel(S, p.x, p.y, deltaY).mode = mode
    /\ \A k \in Keys : handleKeyDown(S, k).mode = mode /\ handleKeyUp(S, k).mode = mode

\* C6 amended: Mode changes on a context click, on a mode button, and on a
\* pointer-down on an entity that is already selected, which sets it to
\* Move; every other pointer-down and the pointer-move, pointer-up,
\* pointer-leave, wheel and key events leave Mode unchanged.  (No effect
\* writes Mode, so the handler's result decides.)
C6_ModeSetByDownOnSelected ==
    /\ \A p \in Points :
          /\ \A b \in Buttons :
                handleMouseDown(S, p.x, p.y, b).mode =
                    IF Includes(selectedEntityIds, findEntityAtPosition(S, p.x, p.y))
                    THEN "move" ELSE mode
          /\ handleMouseMove(S, p.x, p.y).mode = mode
          /\ onMouseUp(S, p.x, p.y).mode = mode
          /\ onMouseLeave(S, p.x, p.y).mode = mode
          /\ \A deltaY \in {-1, 1} : handleWheel(S, p.x, p.y, deltaY).mode = mode
    /\ \A k \in Keys : handleKeyDown(S, k).mode = mode /\ handleKeyUp(S, k).mode = mode
    /\ Settle(S).mode = mode

\* C6 witness: in Select mode the pointer is over a selected entity, and the
\* primary pointer-down there leaves the component in Move mode
C6_SelectModeOverSelected ==
    \E p \in Points :
        /\ mode = "select"
        /\ Includes(selectedEntityIds, findEntityAtPosition(S, p.x, p.y))
        /\ Settle(handleMouseDown(S, p.x, p.y, 0)).mode = "move"

\* C7: a BoxSelecting gesture that is open (not cancelled by Escape, no
\* other gesture started meanwhile) and is ended by pointer-up or
\* pointer-leave applies selectBox and returns to Idle: the Selection Set becomes the entities with a defining point in the
\* box, unioned with the previous set when Shift is held, also when Mode was
\* toggled while the box was open.
C7_BoxEndAppliesSelectBox ==
    BoxSelecting(S) /\ selectionBox # Null /\ ~Dragging(S) /\ ~Panning(S) =>
        LET inBox == { entities[i].id :
                         i \in { j \in 1..Len(entities) :
                                   InBox(entities[j], worldSelectionBox(S)) } }
            expected == IF isShiftPressed THEN IdSet(selectedEntityIds) \cup inBox
                        ELSE inBox
        IN  \A p \in Points :
                \A r \in { Settle(onMouseUp(S, p.x, p.y)),
                            Settle(onMouseLeave(S, p.x, p.y)) } :
                    Idle(r) /\ IdSet(r.selectedEntityIds) = expected

\* C8: a secondary click (the pointer-down of the secondary button followed
\* by the context-menu event) on empty space, on an unselected entity or on
\* a selected entity flips Mode and leaves the gesture state, the Entity
\* Store, the Selection Set, scale and pan unchanged.
C8_ContextClickOnlyFlipsMode ==
    \A p \in Points :
        LET r == Settle(handleContextMenu(Settle(handleMouseDown(S, p.x, p.y, 2))))
        IN  /\ r.mode # mode
            /\ Gesture(r) = Gesture(S)
            /\ r.entities = entities
            /\ r.selectedEntityIds = selectedEntityIds
            /\ r.scale = scale
            /\ r.pan = pan

\* C9: from every state, a pointer-leave produces the same Entity Store,
\* Selection Set, Mode, gesture state, view transform and callback as a
\* pointer-up at the same position.
C9_LeaveBehavesAsUp ==
    \A p \in Points :
        LET l == Settle(onMouseLeave(S, p.x, p.y))
            u == Settle(onMouseUp(S, p.x, p.y))
        IN  /\ l.entities = u.entities
            /\ l.selectedEntityIds = u.selectedEntityIds
            /\ l.mode = u.mode
            /\ Gesture(l) = Gesture(u) /\ l.selectionBox = u.selectionBox
            /\ l.scale = u.scale /\ l.pan = u.pan
            /\ l.calls = u.calls

\* C9 witness: the pointer leaves during a Dragging gesture that translated
\* an entity, and the store is reported
C9_LeaveWhileDragging ==
    /\ Dragging(S) /\ translated
    /\ \E p \in Points : Settle(onMouseLeave(S, p.x, p.y)).calls = <<entities>>

\* C10: with Mode = Select and the gesture Idle, a primary-button
\* pointer-down on an entity that is not selected sets the Selection Set to
\* {id}, or with Shift held to the previous set plus id, and the gesture
\* state stays Idle.
C10_DownOnUnselectedSelects ==
    \A p \in Points :
        LET id == findEntityAtPosition(S, p.x, p.y)
            r == Settle(handleMouseDown(S, p.x, p.y, 0))
        IN  mode = "select" /\ Idle(S) /\ id # 0 /\ ~Includes(selectedEntityIds, id) =>
                /\ IF isShiftPressed
                   THEN /\ IdSet(r.selectedEntityIds) = IdSet(selectedEntityIds) \cup {id}
                        /\ Len(r.selectedEntityIds) = Len(selectedEntityIds) + 1
                   ELSE r.selectedEntityIds = <<id>>
                /\ Idle(r)

\* C10 witness: Select mode, Idle, Shift held, one entity selected and the
\* pointer over the other one
C10_ShiftOverUnselected ==
    \E p \in Points :
        LET id == findEntityAtPosition(S, p.x, p.y)
        IN  /\ mode = "select" /\ Idle(S) /\ isShiftPressed
            /\ Len(selectedEntityIds) = 1
            /\ id # 0 /\ ~Includes(selectedEntityIds, id)
            /\ Len(Settle(handleMouseDown(S, p.x, p.y, 0)).selectedEntityIds) = 2

\* C11: from Idle, a primary-button pointer-down on empty space enters
\* BoxSelecting with the down-point as anchor and a zero-size box when
\* Mode = Select, and enters Panning and starts no box when Mode = Move.
C11_DownOnEmptySpace ==
    \A p \in Points :
        LET r == Settle(handleMouseDown(S, p.x, p.y, 0))
        IN  Idle(S) /\ findEntityAtPosition(S, p.x, p.y) = 0 =>
                IF mode = "select"
                THEN /\ BoxSelecting(r) /\ ~Panning(r) /\ ~Dragging(r)
                     /\ r.selectionStart = Some(p)
                     /\ r.selectionBox = Some([x |-> p.x, y |-> p.y,
                                               width |-> Num(0), height |-> Num(0)])
                ELSE /\ Panning(r) /\ ~BoxSelecting(r) /\ ~Dragging(r)
                     /\ r.selectionBox = Null

\* C11 witness: in Move mode, Idle, the pointer is over empty space and the
\* pointer-down there starts Panning
C11_MoveModeOverEmptySpace ==
    \E p \in Points :
        /\ mode = "move" /\ Idle(S) /\ Len(entities) > 0
        /\ findEntityAtPosition(S, p.x, p.y) = 0
        /\ Panning(Settle(handleMouseDown(S, p.x, p.y, 0)))

\* C12: Escape empties the Selection Set; after Escape during BoxSelecting
\* the box anchor and extent are discarded, and a subsequent pointer-up or
\* pointer-leave (directly or after a pointer-move) leaves the Selection Set
\* empty.
C12_EscapeCancelsBox ==
    LET r == Settle(handleKeyDown(S, "Escape"))
    IN  /\ r.selectedEntityIds = <<>>
        /\ BoxSelecting(S) =>
              /\ r.selectionStart = Null /\ r.selectionBox = Null
              /\ ~BoxSelecting(r)
              /\ \A p \in Points :
                    /\ Settle(onMouseUp(r, p.x, p.y)).selectedEntityIds = <<>>
                    /\ Settle(onMouseLeave(r, p.x, p.y)).selectedEntityIds = <<>>
                    /\ \A q \in Points :
                          LET m == Settle(handleMouseMove(r, q.x, q.y))
                          IN  /\ Settle(onMouseUp(m, p.x, p.y)).selectedEntityIds = <<>>
                              /\ Settle(onMouseLeave(m, p.x, p.y)).selectedEntityIds = <<>>

\* C12 witness: a box-selection is in progress whose pointer-up would select
\* an entity, and Escape is pressed
C12_EscapeDuringBoxOverEntity ==
    /\ BoxSelecting(S) /\ selectionBox # Null
    /\ \E p \in Points : Settle(onMouseUp(S, p.x, p.y)).selectedEntityIds # <<>>
    /\ Settle(handleKeyDown(S, "Escape")).selectionStart = Null

\* C13: after ingestion of any raw entity list, with or without ids, no two
\* entities of the Entity Store share an id.
C13_IdsUniqueInStore ==
    \A i, j \in 1..Len(entities) : i # j => entities[i].id # entities[j].id

\* C14: ingestion replaces only missing ids and preserves every existing
\* one, in order; ingesting a list in which every entity already carries an
\* id (such as an ingested list) yields identical ids in the same order,
\* whatever generateId would return.
C14_IngestPreservesIds ==
    /\ Len(entities) = Len(dxf)
    /\ \A i \in 1..Len(dxf) :
          /\ dxf[i].id # 0 => entities[i].id = dxf[i].id
          /\ entities[i].id # 0
    /\ \A gen \in [1..Len(entities) -> 1..(MaxGenId + 1)] :
          /\ Len(entitiesWithIds(entities, gen)) = Len(entities)
          /\ \A i \in 1..Len(entities) :
                entitiesWithIds(entities, gen)[i].id = entities[i].id

\* C14 witness: the ingested list held an entity with an id other than any
\* generated one and an entity without an id
C14_MixedListIngested ==
    \E i, j \in 1..Len(dxf) :
        /\ dxf[i].id = 0 /\ entities[i].id # 0
        /\ dxf[j].id > MaxGenId /\ entities[j].id = dxf[j].id

\* C15: in every quiescent state, an entity's selected flag is true exactly
\* when its id is in the Selection Set, also after ingestion of a new list.
C15_FlagsMatchSelection ==
    \A i \in 1..Len(entities) :
        entities[i].selected <=> Includes(selectedEntityIds, entities[i].id)

\* C16: operations that change only the selection (click-select, additive
\* select, box-select, clear, Escape) leave scale and pan unchanged, so a pan
\* or zoom made by the user persists across them.
C16_SelectionKeepsView ==
    LET SameView(r) == Settle(r).scale = scale /\ Settle(r).pan = pan
    IN  /\ SameView(clickClearSelection(S))
        /\ SameView(handleKeyDown(S, "Escape"))
        /\ \A p \in Points :
              /\ BoxSelecting(S) /\ mode = "select" => SameView(onMouseUp(S, p.x, p.y))
              /\ /\ Idle(S) /\ mode = "select"
                 /\ findEntityAtPosition(S, p.x, p.y) # 0
                 /\ ~Includes(selectedEntityIds, findEntityAtPosition(S, p.x, p.y))
                 => SameView(selectEntity(S, findEntityAtPosition(S, p.x, p.y)))

\* C17: scale is strictly positive in every reachable state, including after
\* the fit transform of a list whose entities are all of an unknown kind.
C17_ScalePositive ==
    Gt(scale, Num(0))

\* C18: for every non-empty list of Lines and Texts, including a single
\* zero-length Line or a single Text, the padded bounds have strictly positive
\* width and height, so that viewport width / bounds width and viewport
\* height / bounds height are finite.
C18_PaddedBoundsPositive ==
    LET bounds == calculateBounds(entities)
        boundWidth == Sub(bounds.maxX, bounds.minX)
        boundHeight == Sub(bounds.maxY, bounds.minY)
    IN  /\ Len(entities) > 0
        /\ \A i \in 1..Len(entities) : IsLine(entities[i]) \/ IsText(entities[i])
        => /\ Gt(boundWidth, Num(0)) /\ Gt(boundHeight, Num(0))
           /\ IsFinite(Div(Num(width), boundWidth))
           /\ IsFinite(Div(Num(height), boundHeight))

\* C19 (as stated): with zero entities, calculateBounds returns the default
\* box (-10,-10)-(10,10), the fit transform yields a finite, strictly positive
\* scale, and the view's scale after loading an empty list is the fit scale
\* of the default box.
C19_EmptyListViewIsDefaultFit ==
    /\ calculateBounds(<<>>) = DefaultBounds
    /\ IsFinite(fitTransform(<<>>).scale) /\ Gt(fitTransform(<<>>).scale, Num(0))
    /\ entities = <<>> => scale = fitTransform(<<>>).scale

\* C19 (amended): with zero entities, calculateBounds returns the default
\* box (-10,-10)-(10,10) and the fit transform of that box has a finite,
\* strictly positive scale (27), but loading an empty list does not apply it:
\* the view keeps the scale and pan it had before the load.
C19_EmptyListKeepsView ==
    /\ calculateBounds(<<>>) = DefaultBounds
    /\ DefaultBounds = [minX |-> Num(-10), minY |-> Num(-10),
                        maxX |-> Num(10), maxY |-> Num(10)]
    /\ fitTransform(<<>>).scale = Num(27)
    /\ IsFinite(fitTransform(<<>>).scale) /\ Gt(fitTransform(<<>>).scale, Num(0))
    /\ LET r == Settle(ingest(S, <<>>, <<>>))
       IN  r.entities = <<>> /\ r.scale = scale /\ r.pan = pan

\* C19 witness: an empty list was loaded after a list the view was fitted to,
\* and the view still has the scale of that fit
C19_EmptyListAfterFittedList ==
    /\ dxf = <<>> /\ entities = <<>>
    /\ IsFinite(scale) /\ scale # Num(1) /\ scale # fitTransform(<<>>).scale

\* C20: for any non-degenerate Line, the point exactly at the segment's
\* midpoint is reported as a hit by isPointNearLine when the tolerance is 0.
C20_MidpointHitAtZeroTolerance ==
    \A i \in 1..Len(entities) :
        LET e == entities[i]
            midpoint == Pt(Mul(Add(X1(e), X2(e)), Frac(1, 2)),
                           Mul(Add(Y1(e), Y2(e)), Frac(1, 2)))
        IN  IsLine(e) /\ Pt(X1(e), Y1(e)) # Pt(X2(e), Y2(e)) =>
                isPointNearLine(midpoint, Pt(X1(e), Y1(e)), Pt(X2(e), Y2(e)), Num(0))

\* C21: a Text's hit box is anchored at its position and extends upward
\* (increasing world Y) by the label height 14px / scale: the world point
\* 14 / scale above the anchor is a hit, and a point more than the margin
\* (here 3px / scale) below the anchor is not.
C21_TextHitBoxExtendsUpward ==
    \A i \in 1..Len(entities) :
        LET e == entities[i]
            above == Pt(PX(e), Add(PY(e), Div(Num(TextHeightPx), scale)))
            below == Pt(PX(e), Sub(PY(e), Div(Num(TextMarginPx + 1), scale)))
        IN  IsText(e) /\ IsFinite(scale) /\ Gt(scale, Num(0)) =>
                HitsEntity(S, e, above) /\ ~HitsEntity(S, e, below)

\* C22: a rendered frame never observes a partially-applied input event:
\* in every frame painted, the Selection Set used for the status count and
\* the selected flags used for highlighting reflect the same events, so the
\* number of the status line is the number of highlighted shapes.
C22_FrameShowsOneState ==
    canvas.selectedLine =
        Cardinality({ i \in 1..Len(canvas.shapes) : canvas.shapes[i].selected })

\* C23: every frame shows the current Entity Store: once the effects have
\* run and a frame has been rendered, the shapes on the canvas are those of
\* the entities of the store; in particular the canvas shows no entity once
\* the store is empty.
C23_FrameShowsStore ==
    Quiescent =>
        { canvas.shapes[i] : i \in 1..Len(canvas.shapes) } =
            { drawLine(S, entities[i], entities[i].selected) :
                  i \in { j \in 1..Len(entities) : IsLine(entities[j]) } }
            \cup { drawText(S, entities[i], entities[i].selected) :
                       i \in { j \in 1..Len(entities) : IsText(entities[j]) } }

\* C24: rendering performs no mutation: a step that paints the canvas leaves
\* the Entity Store, the Selection Set, the Mode, the gesture state, scale
\* and pan unchanged; and two renders of the same state paint the same
\* output: a second render changes nothing on the canvas, and on a store
\* with entities the output does not depend on what the canvas showed.
C24_RenderMutatesNothing ==
    /\ [][canvas' # canvas =>
             UNCHANGED <<entities, selectedEntityIds, mode, isDragging, dragStart,
                         isMovingSelection, selectionStart, selectionBox,
                         isShiftPressed, scale, pan, dxf>>]_vars
    /\ [](/\ renderCanvas(renderCanvas(canvas, S), S) = renderCanvas(canvas, S)
          /\ Len(entities) > 0 => renderCanvas(canvas, S) = renderCanvas(Blank, S))

\* C24 witness: a frame has painted the entities and a selection box in
\* progress, and the box is still in the state
C24_FramePaintedBox ==
    /\ Painted /\ canvas # Blank
    /\ Len(canvas.shapes) > 0
    /\ canvas.box # Null /\ selectionBox = canvas.box
    /\ Gt(Val(canvas.box).width, Num(0))

\* C25: malformed entities never fail: for any entity with missing
\* coordinate fields, a Line lacking one endpoint included, the bounds
\* calculation raises no error, so that no list takes the component down.
C25_MalformedNeverFails ==
    ~failed

\* C26: zoom toward pointer: after a wheel step with factor f at pointer
\* position m, scale' = scale * f and pan' = m - (m - pan) * f, so that the
\* world point under the pointer is unchanged: screenToWorld(m) is the same
\* before and after, for every scale > 0, pan and m.
C26_WheelKeepsPointUnderPointer ==
    \A m \in Points : \A deltaY \in {-1, 1} :
        LET f == IF deltaY > 0 THEN Frac(19, 20) ELSE Frac(21, 20)
            r == Settle(handleWheel(S, m.x, m.y, deltaY))
        IN  IsFinite(scale) /\ Gt(scale, Num(0)) =>
              /\ r.scale = Mul(scale, f)
              /\ r.pan = Pt(Sub(m.x, Mul(Sub(m.x, pan.x), f)),
                            Sub(m.y, Mul(Sub(m.y, pan.y), f)))
              /\ screenToWorld(r, m.x, m.y) = screenToWorld(S, m.x, m.y)

\* C26 witness: a wheel step has zoomed the fitted view in at a pointer that
\* is not at the pan offset, and the world point under it is the one of the
\* fitted view
C26_ZoomedInAtPointer ==
    /\ Len(entities) > 0
    /\ scale = Mul(fitTransform(entities).scale, Frac(21, 20))
    /\ \E m \in Points :
          /\ m # pan /\ pan # fitTransform(entities).pan
          /\ screenToWorld(S, m.x, m.y) =
                 screenToWorld([S EXCEPT !.scale = fitTransform(entities).scale,
                                         !.pan = fitTransform(entities).pan], m.x, m.y)

\* world points: the defining points of the drawing and points off it
WorldPoints ==
    { Pt(Num(0), Num(0)), Pt(Num(10), Num(5)), Pt(Num(2), Num(4)),
      Pt(Neg(Num(3)), Frac(7, 2)), Pt(Frac(1, 3), Neg(Num(8))) }

\* C27: world/screen round-trip: for every point p and every view with
\* scale > 0, screenToWorld(worldToScreen(p)) = p, worldToScreen being the
\* mapping used for drawing and screenToWorld the one used for pointer input.
C27_ScreenRoundTrip ==
    \A p \in WorldPoints :
        LET q == worldToScreen(S, p.x, p.y)
            w == screenToWorld(S, q.x, q.y)
        IN  IsFinite(scale) /\ Gt(scale, Num(0)) => Eq(w.x, p.x) /\ Eq(w.y, p.y)

\* C27 witness: in a view the user has zoomed and that is not the identity,
\* a point off the X axis is drawn away from its world coordinates and read
\* back
C27_RoundTripInZoomedView ==
    /\ nView > 0 /\ IsFinite(scale) /\ Gt(scale, Num(1))
    /\ scale # fitTransform(entities).scale
    /\ \E p \in WorldPoints :
          /\ ~Eq(p.y, Num(0))
          /\ worldToScreen(S, p.x, p.y) # p
          /\ Eq(screenToWorld(S, worldToScreen(S, p.x, p.y).x,
                                 worldToScreen(S, p.x, p.y).y).y, p.y)

\* entities laid over the store for the box: an entity of unknown kind
\* and a line one endpoint of which lies at the same place
BoxProbes == <<Circle(9, 3, 3), Line(8, 3, 3, 20, 20)>>

\* C28: box selection computes exactly the reference set: the entities
\* selected are the Lines with at least one endpoint inside the closed world
\* rectangle and the Texts whose anchor is inside it, entities of other
\* kinds never; non-additive resolution replaces the Selection Set with that
\* set, additive resolution sets it to the union with the previous set,
\* without duplicates.
C28_BoxSelectsReferenceSet ==
    \A extra \in {<<>>, BoxProbes} :
        LET s1 == [S EXCEPT !.entities = @ \o extra]
            b == worldSelectionBox(s1)
            inside(x, y) == /\ Le(b.minX, x) /\ Le(x, b.maxX)
                            /\ Le(b.minY, y) /\ Le(y, b.maxY)
            ref == { s1.entities[i].id : i \in
                       { j \in 1..Len(s1.entities) :
                           LET e == s1.entities[j]
                           IN  \/ /\ e.type = "LINE"
                                  /\ \/ inside(X1(e), Y1(e))
                                     \/ inside(X2(e), Y2(e))
                               \/ /\ e.type = "TEXT"
                                  /\ inside(PX(e), PY(e)) } }
            r == handleMouseUp(s1, Num(0), Num(0))
        IN  /\ BoxSelecting(S) /\ selectionBox # Null /\ mode = "select"
            /\ IsFinite(scale) /\ Gt(scale, Num(0))
            => /\ IdSet(r.selectedEntityIds) =
                     IF isShiftPressed THEN IdSet(selectedEntityIds) \cup ref ELSE ref
               /\ Cardinality(IdSet(r.selectedEntityIds)) = Len(r.selectedEntityIds)

\* C28 witness: an additive box-selection is in progress over a non-empty
\* selection, and the box holds the anchor of a text that is not selected
C28_AdditiveBoxOverText ==
    /\ BoxSelecting(S) /\ selectionBox # Null /\ mode = "select"
    /\ isShiftPressed /\ Len(selectedEntityIds) > 0
    /\ \E i \in 1..Len(boxIds(S)) : ~Includes(selectedEntityIds, boxIds(S)[i])
    /\ Len(handleMouseUp(S, Num(0), Num(0)).selectedEntityIds) = 2

\* the points and tolerances the proximity test is probed with: on the
\* segments, beside them, beyond their ends
NearPoints ==
    WorldPoints \cup { Pt(Num(5), Frac(5, 2)), Pt(Num(12), Num(6)), Pt(Num(1), Frac(3, 2)),
                       Pt(Num(4), Num(3)) }
Tolerances == { Num(0), Frac(1, 2), Num(1), Num(3), Neg(Num(1)) }

\* the square of the distance from p to the segment from a to b: to the
\* nearer endpoint when the foot of the perpendicular lies off the segment
\* (or the segment is a point), the perpendicular distance otherwise
DistSqToSegment(p, a, b) ==
    LET sq(x, y) == Add(Mul(x, x), Mul(y, y))
        toA == sq(Sub(p.x, a.x), Sub(p.y, a.y))
        toB == sq(Sub(p.x, b.x), Sub(p.y, b.y))
        lenSq == sq(Sub(b.x, a.x), Sub(b.y, a.y))
        dot == Add(Mul(Sub(p.x, a.x), Sub(b.x, a.x)), Mul(Sub(p.y, a.y), Sub(b.y, a.y)))
    IN  IF Eq(lenSq, Num(0)) THEN toA
        ELSE IF Lt(dot, Num(0)) \/ Gt(dot, lenSq) THEN Min2(toA, toB)
        ELSE Sub(toA, Div(Mul(dot, dot), lenSq))

\* C29: line proximity equals the clamped point-to-segment distance test:
\* for every point, segment and tolerance, isPointNearLine is true iff the
\* distance from the point to the segment is strictly less than the
\* tolerance; for a zero-length segment the distance to the start point is
\* used and the result is defined; a point at a distance greater than the
\* tolerance is never a hit.
C29_NearLineIsSegmentDistance ==
    \A i \in 1..Len(entities) : \A p \in NearPoints : \A tol \in Tolerances :
        LET e == entities[i]
            a == Pt(X1(e), Y1(e))
            b == Pt(X2(e), Y2(e))
        IN  IsLine(e) =>
              (isPointNearLine(p, a, b, tol)
                 <=> Gt(tol, Num(0)) /\ Lt(DistSqToSegment(p, a, b), Mul(tol, tol)))

\* C29 witness: the store holds a line and a zero-length line; a point
\* beyond the end of the line, on its extension, is near it at tolerance 3
\* and not at tolerance 1, and a point beside the zero-length line is near it
C29_BeyondEndAndZeroLength ==
    \E i, j \in 1..Len(entities) :
        /\ IsLine(entities[i]) /\ IsLine(entities[j])
        /\ Pt(X1(entities[i]), Y1(entities[i])) # Pt(X2(entities[i]), Y2(entities[i]))
        /\ Pt(X1(entities[j]), Y1(entities[j])) = Pt(X2(entities[j]), Y2(entities[j]))
        /\ isPointNearLine(Pt(Num(12), Num(6)), Pt(X1(entities[i]), Y1(entities[i])),
                           Pt(X2(entities[i]), Y2(entities[i])), Num(3))
        /\ ~isPointNearLine(Pt(Num(12), Num(6)), Pt(X1(entities[i]), Y1(entities[i])),
                            Pt(X2(entities[i]), Y2(entities[i])), Num(1))
        /\ isPointNearLine(Pt(Num(1), Frac(3, 2)), Pt(X1(entities[j]), Y1(entities[j])),
                           Pt(X2(entities[j]), Y2(entities[j])), Num(1))

\* a line laid over the line of the drawing, with an id of its own
OverlapProbe == Line(7, 0, 0, 10, 5)

\* C30: hit-testing returns the first match in store order: when several
\* entities match the pointer position, findEntityAtPosition returns the id
\* of the one with the smallest index in the entity list; it returns none (0)
\* when no entity matches, in particular on an empty store, and any id it
\* returns belongs to an entity of the store.
C30_FirstMatchInStoreOrder ==
    \A es \in { entities, <<OverlapProbe>> \o entities, entities \o <<OverlapProbe>> } :
        \A p \in Points :
            LET s1 == [S EXCEPT !.entities = es]
                w == screenToWorld(s1, p.x, p.y)
                r == findEntityAtPosition(s1, p.x, p.y)
            IN  /\ es = <<>> => r = 0
                /\ r = 0 <=> \A i \in 1..Len(es) : ~HitsEntity(s1, es[i], w)
                /\ r # 0 =>
                      \E i \in 1..Len(es) :
                          /\ es[i].id = r
                          /\ HitsEntity(s1, es[i], w)
                          /\ \A j \in 1..(i - 1) : ~HitsEntity(s1, es[j], w)

\* C30 witness: the pointer is over the line of the store and over a line
\* laid over it; the hit is the line of the store when the other comes
\* later in the list, and the other when it comes first
C30_TwoLinesUnderPointer ==
    \E p \in Points :
        /\ findEntityAtPosition(S, p.x, p.y) = 1
        /\ HitsEntity(S, OverlapProbe, screenToWorld(S, p.x, p.y))
        /\ findEntityAtPosition([S EXCEPT !.entities = @ \o <<OverlapProbe>>], p.x, p.y) = 1
        /\ findEntityAtPosition([S EXCEPT !.entities = <<OverlapProbe>> \o @], p.x, p.y) = 7

\* C31: a Dragging pointer-move changes only the coordinates of selected
\* entities: every entity whose id is not in the Selection Set is unchanged,
\* and the number, order, ids and kinds of all entities and the Selection
\* Set itself are unchanged.
C31_DragMovesOnlySelected ==
    \A p \in Points :
        LET r == Settle(handleMouseMove(S, p.x, p.y))
        IN  Dragging(S) =>
              /\ r.selectedEntityIds = selectedEntityIds
              /\ Len(r.entities) = Len(entities)
              /\ \A i \in 1..Len(entities) :
                    /\ r.entities[i].id = entities[i].id
                    /\ r.entities[i].type = entities[i].type
                    /\ r.entities[i].text = entities[i].text
                    /\ r.entities[i].selected = entities[i].selected
                    /\ ~Includes(selectedEntityIds, entities[i].id)
                          => r.entities[i] = entities[i]

\* C31 witness: the selection is being dragged, one of the two entities is
\* selected, and a pointer-move moves it and not the other
C31_DragOfOneOfTwo ==
    /\ Dragging(S) /\ Len(entities) = 2 /\ Len(selectedEntityIds) = 1
    /\ \E p \in Points : \E i, j \in 1..2 :
          /\ Settle(handleMouseMove(S, p.x, p.y)).entities[i] # entities[i]
          /\ Settle(handleMouseMove(S, p.x, p.y)).entities[j] = entities[j]

\* C32: during Dragging, a pointer-move with screen delta (dx, dy) since the
\* last recorded pointer position adds the world delta (dx / scale, -dy / scale)
\* to both endpoints of every selected Line and to the anchor of every selected
\* Text, and records the new pointer position.  Stated for a non-empty
\* Selection Set, the case in which the translate branch of handleMouseMove is
\* meant to run.  It is violated: a secondary-button press on an entity while a
\* selection box is open sets isMovingSelection next to selectionStart, and
\* once the context menu handler has toggled the mode back to select the next
\* pointer-move takes the box branch and returns before the translate branch.
C32_DragOfSelectionAddsWorldDelta ==
    \A p \in Points :
        LET r == Settle(handleMouseMove(S, p.x, p.y))
            wx == Div(Sub(p.x, dragStart.x), scale)
            wy == Neg(Div(Sub(p.y, dragStart.y), scale))
        IN  Dragging(S) /\ selectedEntityIds # <<>> =>
              /\ r.dragStart = p
              /\ \A i \in 1..Len(entities) :
                    Includes(selectedEntityIds, entities[i].id) =>
                      /\ IsLine(entities[i]) =>
                            /\ Eq(X1(r.entities[i]), Add(X1(entities[i]), wx))
                            /\ Eq(Y1(r.entities[i]), Add(Y1(entities[i]), wy))
                            /\ Eq(X2(r.entities[i]), Add(X2(entities[i]), wx))
                            /\ Eq(Y2(r.entities[i]), Add(Y2(entities[i]), wy))
                      /\ IsText(entities[i]) =>
                            /\ Eq(PX(r.entities[i]), Add(PX(entities[i]), wx))
                            /\ Eq(PY(r.entities[i]), Add(PY(entities[i]), wy))

\* C33: after every pointer-up and every pointer-leave, from any reachable
\* state, the gesture state is Idle: not panning, not dragging, no
\* selection-box anchor and no selection-box extent.
C33_ReleaseReturnsToIdle ==
    \A p \in Points :
        LET up == Settle(onMouseUp(S, p.x, p.y))
            leave == Settle(onMouseLeave(S, p.x, p.y))
        IN  /\ Idle(up) /\ up.selectionBox = Null
            /\ Idle(leave) /\ leave.selectionBox = Null

\* a release finds a drag and an open selection box and leaves neither
C33_ReleaseOfDragAndBox ==
    /\ Dragging(S) /\ BoxSelecting(S) /\ selectionBox # Null
    /\ \E p \in Points :
          /\ Idle(Settle(onMouseUp(S, p.x, p.y)))
          /\ Settle(onMouseUp(S, p.x, p.y)).selectionBox = Null

\* C34: Delete or Backspace with an empty Selection Set is a no-op: the Entity
\* Store, the Selection Set, the Mode, the gesture state and the view transform
\* are unchanged and the collaborator callback is not invoked.
C34_DeleteOfNothingIsNoOp ==
    \A key \in {"Delete", "Backspace"} :
        LET r == Settle(handleKeyDown(S, key))
        IN  selectedEntityIds = <<>> =>
              /\ r.entities = entities
              /\ r.selectedEntityIds = selectedEntityIds
              /\ r.mode = mode
              /\ Gesture(r) = Gesture(S)
              /\ r.selectionStart = selectionStart /\ r.selectionBox = selectionBox
              /\ r.dragStart = dragStart
              /\ r.scale = scale /\ r.pan = pan
              /\ r.calls = <<>>

\* Delete arrives with nothing selected, during a gesture, in a view that is not
\* the fitted one
C34_DeleteOfNothingDuringGesture ==
    /\ selectedEntityIds = <<>> /\ entities # <<>>
    /\ ~Idle(S)
    /\ fitEffect(S).scale # scale
    /\ Settle(handleKeyDown(S, "Delete")) = S

\* C35: entities of an unknown kind (neither LINE nor TEXT) are a no-op for
\* interaction: they never enter the Selection Set and are never translated or
\* deleted by a sequence of pointer and key events.  Stated for the sequence
\* primary-button click at a point, then Delete: no entity of unknown kind has
\* its id in the Selection Set after the click, and each is in the store,
\* unchanged, after the Delete.
C35_UnknownKindIsNeverSelectedOrDeleted ==
    \A p \in Points :
        LET down == Committed(Settle(handleMouseDown(S, p.x, p.y, 0)))
            up == Committed(Settle(onMouseUp(down, p.x, p.y)))
            del == Settle(handleKeyDown(up, "Delete"))
        IN  \A i \in 1..Len(entities) :
                ~IsLine(entities[i]) /\ ~IsText(entities[i]) =>
                    /\ ~Includes(up.selectedEntityIds, entities[i].id)
                    /\ \E j \in 1..Len(del.entities) : del.entities[j] = entities[i]

\* C36: at most one gesture is active in every reachable state: among Panning
\* (isDragging), Dragging (isMovingSelection) and BoxSelecting (selectionStart
\* set) at most one holds, whatever the sequence of pointer-down (any button),
\* pointer-move, pointer-up or -leave, context-click and key events.
C36_AtMostOneGesture ==
    /\ ~(Panning(S) /\ Dragging(S))
    /\ ~(Panning(S) /\ BoxSelecting(S))
    /\ ~(Dragging(S) /\ BoxSelecting(S))

\* C37: with Mode = Select and the modifier not held, a primary-button
\* pointer-down on empty space empties the Selection Set at the pointer-down
\* itself (not only at the release); with the modifier held the pointer-down
\* leaves the Selection Set unchanged.
C37_PressOnEmptySpaceClearsSelection ==
    \A p \in Points :
        LET r == Settle(handleMouseDown(S, p.x, p.y, 0))
        IN  mode = "select" /\ findEntityAtPosition(S, p.x, p.y) = 0 =>
              /\ ~isShiftPressed => r.selectedEntityIds = <<>>
              /\ isShiftPressed => r.selectedEntityIds = selectedEntityIds

\* a press on empty space, without the modifier, finds an entity selected
C37_PressWithSelection ==
    /\ mode = "select" /\ ~isShiftPressed /\ selectedEntityIds # <<>> /\ Idle(S)
    /\ \E p \in Points :
          /\ findEntityAtPosition(S, p.x, p.y) = 0
          /\ Settle(handleMouseDown(S, p.x, p.y, 0)).selectedEntityIds = <<>>
          /\ BoxSelecting(Settle(handleMouseDown(S, p.x, p.y, 0)))

\* C38: at most one render-loop frame callback is pending at any time: when
\* the render function is replaced or the component is torn down, the frame
\* scheduled before is cancelled before a new one is scheduled, so that no
\* stale render loop keeps running: the pending callback, if any, is the one
\* whose handle the ref holds, it belongs to the render function of the last
\* render, and none is pending once the component is unmounted.
C38_AtMostOneFramePending ==
    /\ Cardinality(frames) <= 1
    /\ \A f \in frames :
          /\ mounted
          /\ f.id = animationFrameRef
          /\ f.renderCanvas = RenderCanvasOf(S)

\* the component is torn down after its render function was replaced (an
\* entity is selected) and frames have painted
C38_TornDownAfterFrames ==
    /\ ~mounted /\ frames = {}
    /\ selectedEntityIds # <<>>
    /\ canvas # Blank /\ canvas.selectedLine > 0

=============================================================================
